---- MODULE Spec2Model ----
(***************************************************************************)
(* The diff view of vim-gin: GinDiff (command), the BufReadCmd handler     *)
(* (read) and the two jump handlers (jumpOld, jumpNew), over a small       *)
(* editor: a buffer table, a current buffer and the diff processes.        *)
(*                                                                         *)
(* Strings are sequences of tokens: "R1..R2" is <<"R1", "..", "R2">>, the  *)
(* empty string is <<>>.  A path is the sequence of its components.  An    *)
(* optional value is a sequence of length at most one: <<>> is undefined,  *)
(* <<x>> is x.  A token of a path or of a revision is never one of the     *)
(* delimiters of the buffer name ("://", "?", "&", "=", "#"): the codec    *)
(* percent-encodes them.                                                   *)
(***************************************************************************)
EXTENDS Integers, Sequences, FiniteSets, TLC

(* ------------------------------ bounds -------------------------------- *)

\* Longest list of flags a GinDiff command line carries.
MaxFlags == 2

\* Number of lines after the first hunk header in the diff texts the
\* locator is scanned over.
MaxLines == 3

(* --------------------------- small helpers ----------------------------- *)

Undefined == <<>>

Some(x) == <<x>>

Range(s) == {s[i] : i \in 1..Len(s)}

\* The first index of token t in s, 0 when s does not hold it.
IndexOf(s, t) ==
  IF \E i \in 1..Len(s) : s[i] = t
  THEN CHOOSE i \in 1..Len(s) : s[i] = t /\ \A j \in 1..(i - 1) : s[j] # t
  ELSE 0

\* s cut at every token sep: String.prototype.split.
RECURSIVE SplitBy(_, _)
SplitBy(s, sep) ==
  LET i == IndexOf(s, sep)
  IN  IF i = 0 THEN <<s>>
      ELSE <<SubSeq(s, 1, i - 1)>> \o SplitBy(SubSeq(s, i + 1, Len(s)), sep)

\* The sequences of length at most n over S without a repeated element.
RECURSIVE SeqsNoRepeat(_, _)
SeqsNoRepeat(S, n) ==
  IF n = 0 THEN {<<>>}
  ELSE LET shorter == SeqsNoRepeat(S, n - 1)
           longer == {Append(s, x) : s \in shorter, x \in S}
       IN  shorter \cup
             {s \in longer : \A i, j \in 1..Len(s) : s[i] = s[j] => i = j}

(* ------------------------- the buffer-name codec ----------------------- *)
(* bufname.format / bufname.parse: scheme://root?k=v&k#fragment            *)

\* One parameter: its key alone when its value is the empty string.
FormatParam(p) ==
  IF p.v[1] = <<>> THEN <<p.k>> ELSE <<p.k, "=">> \o p.v[1]

\* The parameters joined by "&"; a parameter whose value is undefined is
\* left out.
RECURSIVE FormatParams(_)
FormatParams(params) ==
  IF params = <<>> THEN <<>>
  ELSE LET p == Head(params)
           rest == FormatParams(Tail(params))
       IN  IF p.v = Undefined THEN rest
           ELSE IF rest = <<>> THEN FormatParam(p)
           ELSE FormatParam(p) \o <<"&">> \o rest

format(d) ==
  <<d.scheme, "://">> \o d.expr
    \o (IF d.hasParams THEN <<"?">> \o FormatParams(d.params) ELSE <<>>)
    \o (IF d.fragment # <<>> THEN <<"#">> \o d.fragment ELSE <<>>)

\* One k or k=v piece of the parameter string.
ParseParam(piece) ==
  [k |-> piece[1],
   v |-> IF Len(piece) >= 2 /\ piece[2] = "="
         THEN Some(SubSeq(piece, 3, Len(piece)))
         ELSE Some(<<>>)]

RECURSIVE ParseParamPieces(_)
ParseParamPieces(pieces) ==
  IF pieces = <<>> THEN <<>>
  ELSE IF Head(pieces) = <<>> THEN ParseParamPieces(Tail(pieces))
  ELSE <<ParseParam(Head(pieces))>> \o ParseParamPieces(Tail(pieces))

ParseParams(s) == ParseParamPieces(SplitBy(s, "&"))

\* parse(bname): ok is FALSE when bname is no scheme://... name (parse
\* throws); params are undefined (hasParams FALSE) when the name holds no
\* parameter string or an empty one; fragment is <<>> when the name holds
\* no fragment.  The scheme is returned, not checked.
parse(bname) ==
  IF Len(bname) < 2 \/ bname[2] # "://"
  THEN [ok |-> FALSE, scheme |-> "", expr |-> <<>>, hasParams |-> FALSE,
        params |-> <<>>, fragment |-> <<>>]
  ELSE LET rest == SubSeq(bname, 3, Len(bname))
           h == IndexOf(rest, "#")
           front == IF h = 0 THEN rest ELSE SubSeq(rest, 1, h - 1)
           frag == IF h = 0 THEN <<>> ELSE SubSeq(rest, h + 1, Len(rest))
           q == IndexOf(front, "?")
           root == IF q = 0 THEN front ELSE SubSeq(front, 1, q - 1)
           pstr == IF q = 0 THEN <<>> ELSE SubSeq(front, q + 1, Len(front))
       IN  [ok |-> TRUE, scheme |-> bname[1], expr |-> root,
            hasParams |-> pstr # <<>>, params |-> ParseParams(pstr),
            fragment |-> frag]

\* params?.[key]: the value of the first parameter named key, or undefined.
Lookup(params, key) ==
  IF \E i \in 1..Len(params) : params[i].k = key
  THEN params[CHOOSE i \in 1..Len(params) :
                params[i].k = key /\ \A j \in 1..(i - 1) : params[j].k # key].v
  ELSE Undefined

\* key in (params ?? {}).
HasKey(params, key) == \E i \in 1..Len(params) : params[i].k = key

(* ------------------------------ util/args ------------------------------ *)

\* The flags GinDiff accepts (validateFlags) that this model draws from.
ShortKeys == {"R", "b", "w", "I"}

\* One flag as one argument: -R, --cached, --diff-filter=A.
formatFlag(p) ==
  <<IF p.k \in ShortKeys THEN "-" ELSE "--", p.k>>
    \o (IF p.v[1] = <<>> THEN <<>> ELSE <<"=">> \o p.v[1])

\* formatFlags(flags): the flags in their order, each as one argument; an
\* entry whose value is undefined gives no argument.
RECURSIVE formatFlags(_)
formatFlags(flags) ==
  IF flags = <<>> THEN <<>>
  ELSE (IF Head(flags).v = Undefined THEN <<>> ELSE <<formatFlag(Head(flags))>>)
         \o formatFlags(Tail(flags))

\* path.relative(from, to) on paths given by their components.
RECURSIVE relative(_, _)
relative(from, to) ==
  IF from # <<>> /\ to # <<>> /\ Head(from) = Head(to)
  THEN relative(Tail(from), Tail(to))
  ELSE [i \in 1..Len(from) |-> ".."] \o to

(* --------------------------- diff/commitish ---------------------------- *)

INDEX == [kind |-> "INDEX", ref |-> <<>>]

WORKTREE == [kind |-> "WORKTREE", ref |-> <<>>]

Commit(ref) == [kind |-> "COMMIT", ref |-> ref]

\* A revision: one or more tokens, none of them the range marker.
IsRevision(s) == s # <<>> /\ ".." \notin Range(s)

\* parseCommitish(commitish, cached): the (old, new) pair of comparison
\* targets; ok is FALSE when the expression is malformed (the call throws
\* InvalidRevisionExpression).
parseCommitish(commitish, cached) ==
  LET parts == SplitBy(commitish, "..")
      bad == [ok |-> FALSE, old |-> WORKTREE, new |-> WORKTREE]
  IN  IF commitish = <<>>
      THEN IF cached
           THEN [ok |-> TRUE, old |-> Commit(<<"HEAD">>), new |-> INDEX]
           ELSE [ok |-> TRUE, old |-> INDEX, new |-> WORKTREE]
      ELSE IF Len(parts) = 1 /\ IsRevision(parts[1])
      THEN [ok |-> TRUE, old |-> Commit(parts[1]),
            new |-> IF cached THEN INDEX ELSE WORKTREE]
      ELSE IF Len(parts) = 2 /\ IsRevision(parts[1]) /\ IsRevision(parts[2])
      THEN [ok |-> TRUE, old |-> Commit(parts[1]), new |-> Commit(parts[2])]
      ELSE bad

(* ------------------------------ diff/jump ------------------------------ *)
(* A line of diff text is a record: k its kind ("file" a file header,      *)
(* "hunk" a hunk header, "ctx", "del", "add" a content line, "other" any   *)
(* other line), p the (old, new) paths of a file header, s the (oldStart,  *)
(* newStart) of a hunk header.                                             *)

FileLine(old, new) == [k |-> "file", p |-> <<old, new>>, s |-> <<>>]

HunkLine(oldStart, newStart) ==
  [k |-> "hunk", p |-> <<>>, s |-> <<oldStart, newStart>>]

ContentLine(kind) == [k |-> kind, p |-> <<>>, s |-> <<>>]

NoJump == [found |-> FALSE, path |-> <<>>, lnum |-> 0]

ScanInit == [paths |-> <<>>, inHunk |-> FALSE, oldLine |-> 0, newLine |-> 0]

\* ScanStep with a removal line advancing both counters.
ScanStepBoth(st, line) ==
  CASE line.k = "file" ->
         [paths |-> line.p, inHunk |-> FALSE, oldLine |-> 0, newLine |-> 0]
    [] line.k = "hunk" ->
         [st EXCEPT !.inHunk = TRUE, !.oldLine = line.s[1],
                    !.newLine = line.s[2]]
    [] line.k \in {"ctx", "del"} /\ st.inHunk ->
         [st EXCEPT !.oldLine = @ + 1, !.newLine = @ + 1]
    [] line.k = "add" /\ st.inHunk -> [st EXCEPT !.newLine = @ + 1]
    [] OTHER -> st

\* One step of the forward scan: the accumulator after a line.
ScanStep(st, line) ==
  CASE line.k = "file" ->
         [paths |-> line.p, inHunk |-> FALSE, oldLine |-> 0, newLine |-> 0]
    [] line.k = "hunk" ->
         [st EXCEPT !.inHunk = TRUE, !.oldLine = line.s[1],
                    !.newLine = line.s[2]]
    [] line.k = "ctx" /\ st.inHunk ->
         [st EXCEPT !.oldLine = @ + 1, !.newLine = @ + 1]
    [] line.k = "del" /\ st.inHunk -> [st EXCEPT !.oldLine = @ + 1]
    [] line.k = "add" /\ st.inHunk -> [st EXCEPT !.newLine = @ + 1]
    [] OTHER -> st

\* The accumulator after the first n lines of text.
RECURSIVE ScanTo(_, _)
ScanTo(text, n) ==
  IF n = 0 THEN ScanInit ELSE ScanStep(ScanTo(text, n - 1), text[n])

\* locate(text, cursorLine, side): cursorLine counts from 0.  The path it
\* returns is the header's, prefix included: the jump handlers strip it.
locate(text, cursorLine, side) ==
  IF cursorLine < 0 \/ cursorLine >= Len(text) THEN NoJump
  ELSE LET st == ScanTo(text, cursorLine)
           line == text[cursorLine + 1]
       IN  IF ~st.inHunk \/ st.paths = <<>> THEN NoJump
           ELSE IF side = "old" /\ line.k \in {"ctx", "del"}
           THEN [found |-> TRUE, path |-> st.paths[1], lnum |-> st.oldLine]
           ELSE IF side = "new" /\ line.k \in {"ctx", "add"}
           THEN [found |-> TRUE, path |-> st.paths[2], lnum |-> st.newLine]
           ELSE NoJump

findJumpOld(index, content) == locate(content, index, "old")

findJumpNew(index, content) == locate(content, index, "new")

(* ------------------------------ the editor ----------------------------- *)

\* The buffer numbers of the editor.
BufNrs == {1, 2}

Repo == <<"repo">>

FooPath == <<"foo.txt">>

BarPath == <<"bar.txt">>

\* The lines a scanned text is made of after its first hunk header: the
\* header of a second file (a/bar.txt in the directory a, b/bar.txt in the
\* directory b), a second hunk header, and the three content lines.
ScanLines ==
  <<FileLine(<<"a", "a">> \o BarPath, <<"b", "b">> \o BarPath),
    HunkLine(4, 6), ContentLine("ctx"), ContentLine("del"),
    ContentLine("add")>>

\* The n lines the number code stands for, one digit for each line.
RECURSIVE ScanTail(_, _)
ScanTail(code, n) ==
  IF n = 0 THEN <<>>
  ELSE <<ScanLines[(code % Len(ScanLines)) + 1]>>
         \o ScanTail(code \div Len(ScanLines), n - 1)

\* The texts a buffer may hold, by number: 0 is the empty buffer, 1 the
\* diff of foo.txt (header, @@ -1,2 +1,3 @@, context, addition, context),
\* 2 a diff of foo.txt with a removal (header, @@ -4,2 +6,2 @@, removal,
\* addition, context); from 3 on, the header of foo.txt, @@ -1 +1 @@ and
\* MaxLines lines of ScanLines.
Text(t) ==
  CASE t = 1 -> <<FileLine(<<"a">> \o FooPath, <<"b">> \o FooPath),
                  HunkLine(1, 1), ContentLine("ctx"), ContentLine("add"),
                  ContentLine("ctx")>>
    [] t = 2 -> <<FileLine(<<"a">> \o FooPath, <<"b">> \o FooPath),
                  HunkLine(4, 6), ContentLine("del"), ContentLine("add"),
                  ContentLine("ctx")>>
    [] t >= 3 -> <<FileLine(<<"a">> \o FooPath, <<"b">> \o FooPath),
                   HunkLine(1, 1)>> \o ScanTail(t - 3, MaxLines)
    [] OTHER -> <<>>

\* The last line of a buffer holding text t: an empty buffer has one line.
LastLine(t) == IF Len(Text(t)) = 0 THEN 1 ELSE Len(Text(t))

NoDecor == [opts |-> FALSE, plug |-> FALSE, keys |-> FALSE]

\* A buffer without a name, text, options or mappings.
NoBuf == [name |-> <<>>, text |-> 0, decor |-> NoDecor, origin |-> Undefined]

IdleProc ==
  [pc |-> "idle", bname |-> <<>>, disable |-> FALSE, order |-> <<>>,
   status |-> "none", stdout |-> 0]

NoLast ==
  [op |-> "none", bname |-> <<>>, bufnr |-> 0, err |-> "", trace |-> <<>>,
   lnum |-> 0, jump |-> NoJump, edit |-> Undefined, cursorSet |-> Undefined,
   diff |-> Undefined, echo |-> Undefined, order |-> <<>>]

VARIABLES
  bufs,      \* the buffer table: name, text, options and mappings, and the
             \* command line that opened the buffer
  cur,       \* the current buffer
  gDisable,  \* g:gin_diff_disable_default_mappings
  cmdline,   \* the GinDiff command line of this session, and the editor's
             \* answers (cwd, directory of the buffer) when it is run
  procs,     \* the diff process each buffer's read awaits
  requests,  \* the diff processes started so far, each with the buffer name
             \* it was started for
  last       \* what the step just taken did, when a handler took it

vars == <<bufs, cur, gDisable, cmdline, procs, requests, last>>

\* The editor at its start: unnamed empty buffers, the first one current.
\* The session's command line is one of cmdlines.
InitWith(cmdlines, disables) ==
  /\ bufs = [b \in BufNrs |-> NoBuf]
  /\ cur = 1
  /\ gDisable \in disables
  /\ cmdline \in cmdlines
  /\ procs = [b \in BufNrs |-> IdleProc]
  /\ requests = {}
  /\ last = NoLast

\* The buffers `:edit name` may use: the one of that name, else an unnamed
\* one without a running read.
SlotsFor(name) ==
  IF \E b \in BufNrs : bufs[b].name = name
  THEN {b \in BufNrs : bufs[b].name = name}
  ELSE {b \in BufNrs : bufs[b].name = <<>> /\ procs[b].pc = "idle"}

(* --------------------------- util/worktree ----------------------------- *)

GIN_BUFFER_PROTOCOLS == {"gindiff", "ginedit"}

\* find(dir): the root of the repository that holds dir, its first
\* component: every repository of the model lies directly under /.
find(dir) == IF dir = <<>> THEN <<>> ELSE <<Head(dir)>>

\* getWorktree with the directory of the buffer asked before its name.
getWorktreeDirFirst(bname, env) ==
  LET d == parse(bname)
  IN  IF env.dirname # <<>> /\ env.exists THEN find(env.dirname)
      ELSE IF bname # <<>> /\ d.ok /\ d.scheme \in GIN_BUFFER_PROTOCOLS
      THEN d.expr
      ELSE find(env.cwd)

\* getWorktree: env holds what the editor answers, cwd (getcwd()), dirname
\* (expand("%:h")) and whether that directory exists; bname is the name of
\* the current buffer.
getWorktree(bname, env) ==
  LET d == parse(bname)
  IN  IF bname # <<>> /\ d.ok /\ d.scheme \in GIN_BUFFER_PROTOCOLS
      THEN d.expr
      ELSE IF env.dirname # <<>> /\ env.exists THEN find(env.dirname)
      ELSE find(env.cwd)

getWorktreeFromOpts(opts, bname, env) ==
  IF Lookup(opts, "worktree") \notin {Undefined, Some(<<>>)}
  THEN find(Lookup(opts, "worktree")[1])
  ELSE getWorktree(bname, env)

(* ------------------------------- command ------------------------------- *)

AllowedOpts == {"worktree", "enc", "ff"}

AllowedFlags ==
  {"R", "b", "w", "I", "cached", "renames", "diff-filter", "ignore-cr-at-eol",
   "ignore-space-at-eol", "ignore-space-change", "ignore-all-space",
   "ignore-blank-lines", "ignore-matching-lines", "ignore-submodules"}

\* validateOpts, validateFlags: every key is one of the accepted ones.
validate(entries, allowed) == \A i \in 1..Len(entries) : entries[i].k \in allowed

\* parseResidue taking the first and the last of three or more arguments.
parseResidueLoose(residue) ==
  CASE Len(residue) = 1 ->
         [ok |-> TRUE, commitish |-> Undefined, abspath |-> residue[1]]
    [] Len(residue) >= 2 ->
         [ok |-> TRUE, commitish |-> Some(residue[1]),
          abspath |-> residue[Len(residue)]]
    [] OTHER -> [ok |-> FALSE, commitish |-> Undefined, abspath |-> <<>>]

parseResidue(residue) ==
  CASE Len(residue) = 1 ->
         [ok |-> TRUE, commitish |-> Undefined, abspath |-> residue[1]]
    [] Len(residue) = 2 ->
         [ok |-> TRUE, commitish |-> Some(residue[1]), abspath |-> residue[2]]
    [] OTHER -> [ok |-> FALSE, commitish |-> Undefined, abspath |-> <<>>]

\* The name GinDiff gives its buffer.
commandBname(worktree, flags, commitish, abspath) ==
  format([scheme |-> "gindiff", expr |-> worktree, hasParams |-> TRUE,
          params |-> flags \o <<[k |-> "commitish", v |-> commitish]>>,
          fragment |-> relative(worktree, abspath)])

\* What command does up to its call of buffer.open: the steps it takes,
\* the error it throws ("" when none) and the name it hands to buffer.open.
commandPlan(opts, flags, residue, bname, env) ==
  LET r == parseResidue(residue)
      worktree == getWorktreeFromOpts(opts, bname, env)
      none == [trace |-> <<>>, err |-> "", bname |-> <<>>,
               worktree |-> <<>>, commitish |-> Undefined, abspath |-> <<>>]
  IN  IF ~validate(opts, AllowedOpts)
      THEN [none EXCEPT !.trace = <<"validateOpts">>, !.err = "opts"]
      ELSE IF ~validate(flags, AllowedFlags)
      THEN [none EXCEPT !.trace = <<"validateOpts", "validateFlags">>,
                        !.err = "flags"]
      ELSE IF ~r.ok
      THEN [none EXCEPT !.trace = <<"validateOpts", "validateFlags",
                                    "parseResidue">>,
                        !.err = "residue"]
      ELSE [trace |-> <<"validateOpts", "validateFlags", "parseResidue",
                        "getWorktree", "format", "open">>,
            err |-> "",
            bname |-> commandBname(worktree, flags, r.commitish, r.abspath),
            worktree |-> worktree, commitish |-> r.commitish,
            abspath |-> r.abspath]

\* GinDiff [{options}] [{commitish}] {path}
command ==
    LET flags == cmdline.flags
        plan == commandPlan(cmdline.opts, flags, cmdline.residue,
                            bufs[cur].name, cmdline.env)
        done == [NoLast EXCEPT !.op = "command", !.trace = plan.trace,
                               !.err = plan.err, !.bname = plan.bname]
    IN  IF plan.err # ""
        THEN /\ last' = done
             /\ UNCHANGED <<bufs, cur, gDisable, cmdline, procs, requests>>
        ELSE \E b \in SlotsFor(plan.bname) :
               /\ bufs' = [bufs EXCEPT
                    ![b].name = plan.bname,
                    ![b].origin = Some([worktree |-> plan.worktree,
                                        commitish |-> plan.commitish,
                                        flags |-> flags,
                                        abspath |-> plan.abspath])]
               /\ cur' = b
               /\ last' = [done EXCEPT !.bufnr = b]
               /\ UNCHANGED <<gDisable, cmdline, procs, requests>>

(* --------------------------------- read -------------------------------- *)

Truthy(v) == v \notin {Undefined, Some(<<>>)}

\* { ...params ?? {}, commitish: undefined }
readFlags(params) ==
  IF HasKey(params, "commitish")
  THEN [i \in 1..Len(params) |->
          IF params[i].k = "commitish"
          THEN [k |-> "commitish", v |-> Undefined] ELSE params[i]]
  ELSE params \o <<[k |-> "commitish", v |-> Undefined]>>

\* readArgs with a memory: the revision is left out once the current buffer
\* has been filled.
readArgsStateful(params, fragment) ==
  <<<<"diff">>, <<"--no-color">>>>
    \o formatFlags(readFlags(params))
    \o (IF Truthy(Lookup(params, "commitish")) /\ ~bufs[cur].decor.opts
        THEN <<Lookup(params, "commitish")[1]>> ELSE <<>>)
    \o <<fragment>>

\* The argument list of the diff process.
readArgs(params, fragment) ==
  <<<<"diff">>, <<"--no-color">>>>
    \o formatFlags(readFlags(params))
    \o (IF Truthy(Lookup(params, "commitish"))
        THEN <<Lookup(params, "commitish")[1]>> ELSE <<>>)
    \o <<fragment>>

\* readPlan without the check of the fragment.
readPlanNoFragmentCheck(bname) ==
  LET d == parse(bname)
  IN  IF ~d.ok
      THEN [err |-> "parse", trace |-> <<"gather", "parse">>,
            diff |-> Undefined]
      ELSE [err |-> "", trace |-> <<"gather", "parse", "run">>,
            diff |-> Some([args |-> readArgs(d.params, d.fragment),
                           cwd |-> d.expr])]

\* What read does up to its call of run: the error it throws ("" when
\* none) and the process it starts.
readPlan(bname) ==
  LET d == parse(bname)
  IN  IF ~d.ok
      THEN [err |-> "parse", trace |-> <<"gather", "parse">>,
            diff |-> Undefined]
      ELSE IF d.fragment = <<>>
      THEN [err |-> "fragment", trace |-> <<"gather", "parse">>,
            diff |-> Undefined]
      ELSE [err |-> "", trace |-> <<"gather", "parse", "run">>,
            diff |-> Some([args |-> readArgs(d.params, d.fragment),
                           cwd |-> d.expr])]

\* The buffers whose reading the editor hands to read: the autocommand
\* BufReadCmd gindiff://*.
IsDiffName(bname) == Len(bname) >= 2 /\ bname[1] = "gindiff" /\ bname[2] = "://"

Running == {b \in BufNrs : procs[b].pc # "idle"}

\* read, to the start of the diff process: at most limit reads run at once.
readStart(limit) ==
  LET plan == readPlan(bufs[cur].name)
      done == [NoLast EXCEPT !.op = "read", !.bname = bufs[cur].name,
                             !.bufnr = cur, !.err = plan.err,
                             !.trace = plan.trace, !.diff = plan.diff]
  IN  /\ IsDiffName(bufs[cur].name)
      /\ procs[cur].pc = "idle"
      /\ Cardinality(Running) < limit
      /\ last' = done
      /\ IF plan.err # ""
         THEN UNCHANGED <<procs, requests>>
         ELSE /\ procs' = [procs EXCEPT ![cur] =
                    [IdleProc EXCEPT !.pc = "await",
                                     !.bname = bufs[cur].name,
                                     !.disable = gDisable]]
              /\ requests' = requests \cup
                   {[bname |-> bufs[cur].name, diff |-> plan.diff[1]]}
      /\ UNCHANGED <<bufs, cur, gDisable, cmdline>>

Awaited == {"status", "stdout", "stderr"}

\* One of proc.status(), proc.output(), proc.stderrOutput() resolves.
readResolve(b, which, textSet) ==
  /\ procs[b].pc = "await"
  /\ which \notin Range(procs[b].order)
  /\ \E success \in BOOLEAN, t \in textSet :
       procs' = [procs EXCEPT
         ![b].order = Append(@, which),
         ![b].status = IF which = "status"
                       THEN (IF success THEN "ok" ELSE "fail") ELSE @,
         ![b].stdout = IF which = "stdout" THEN t ELSE @]
  /\ last' = NoLast
  /\ UNCHANGED <<bufs, cur, gDisable, cmdline, requests>>

\* The options and mappings of a buffer after buffer.ensure's batch.
readDecor(decor, disable) ==
  [opts |-> TRUE, plug |-> TRUE, keys |-> decor.keys \/ ~disable]

\* readBuffer without the return after a failed process.
readBufferAlways(buf, p) ==
  [buf EXCEPT !.decor = readDecor(@, p.disable), !.text = p.stdout]

\* The buffer a finished read leaves: untouched when the process failed.
readBuffer(buf, p) ==
  IF p.status # "ok" THEN buf
  ELSE [buf EXCEPT !.decor = readDecor(@, p.disable), !.text = p.stdout]

\* readTrace with the default keys mapped whatever the variable says.
readTraceKeysAlways(p) ==
  IF p.status # "ok" THEN <<"await", "close", "echo">>
  ELSE <<"await", "close", "options", "mapOld", "mapNew", "mapKeys",
         "editData", "concrete">>

readTrace(p) ==
  IF p.status # "ok" THEN <<"await", "close", "echo">>
  ELSE <<"await", "close", "options", "mapOld", "mapNew">>
         \o (IF p.disable THEN <<>> ELSE <<"mapKeys">>)
         \o <<"editData", "concrete">>

\* readFinish writing into the buffer that is current at its end.
readFinishCurrent(b) ==
  LET p == procs[b]
  IN  /\ p.pc = "await"
      /\ Range(p.order) = Awaited
      /\ procs' = [procs EXCEPT ![b] = IdleProc]
      /\ bufs' = [bufs EXCEPT ![cur] = readBuffer(@, p)]
      /\ last' = [NoLast EXCEPT
           !.op = "read", !.bname = p.bname, !.bufnr = b,
           !.err = IF p.status = "ok" THEN "" ELSE "process",
           !.echo = IF p.status = "ok" THEN Undefined ELSE Some("stderr"),
           !.trace = readTrace(p), !.order = p.order]
      /\ UNCHANGED <<cur, gDisable, cmdline, requests>>

\* read, from Promise.all to its end.
readFinish(b) ==
  LET p == procs[b]
  IN  /\ p.pc = "await"
      /\ Range(p.order) = Awaited
      /\ procs' = [procs EXCEPT ![b] = IdleProc]
      /\ bufs' = [bufs EXCEPT ![b] = readBuffer(@, p)]
      /\ last' = [NoLast EXCEPT
           !.op = "read", !.bname = p.bname, !.bufnr = b,
           !.err = IF p.status = "ok" THEN "" ELSE "process",
           !.echo = IF p.status = "ok" THEN Undefined ELSE Some("stderr"),
           !.trace = readTrace(p), !.order = p.order]
      /\ UNCHANGED <<cur, gDisable, cmdline, requests>>

(* --------------------------------- jump -------------------------------- *)

\* stripPrefix with the prefix removed as often as it leads the path.
RECURSIVE stripPrefixAll(_, _)
stripPrefixAll(path, prefix) ==
  IF Len(path) > 1 /\ path[1] = prefix
  THEN stripPrefixAll(Tail(path), prefix) ELSE path

\* path.replace(/^a\//, ""): the prefix goes when a component follows it.
stripPrefix(path, prefix) ==
  IF Len(path) > 1 /\ path[1] = prefix THEN Tail(path) ELSE path

\* editArgs with the staged marker forgotten in the INDEX branch.
editArgsNoCached(expr, commitish, target, path) ==
  IF target = INDEX \/ target = WORKTREE
  THEN <<<<"++worktree=">> \o expr, path>>
  ELSE <<<<"++worktree=">> \o expr,
         IF commitish # <<>> THEN commitish ELSE <<"HEAD">>, path>>

\* editArgs without the default of an empty expression to HEAD.
editArgsNoHead(expr, commitish, target, path) ==
  IF target = INDEX
  THEN <<<<"++worktree=">> \o expr, <<"--cached">>, path>>
  ELSE IF target = WORKTREE
  THEN <<<<"++worktree=">> \o expr, path>>
  ELSE <<<<"++worktree=">> \o expr, commitish, path>>

\* The arguments of the edit command for a target: the three branches of
\* the handler.
editArgs(expr, commitish, target, path) ==
  IF target = INDEX
  THEN <<<<"++worktree=">> \o expr, <<"--cached">>, path>>
  ELSE IF target = WORKTREE
  THEN <<<<"++worktree=">> \o expr, path>>
  ELSE <<<<"++worktree=">> \o expr,
         IF commitish # <<>> THEN commitish ELSE <<"HEAD">>, path>>

\* params?.commitish ?? ""
commitishOf(params) ==
  IF Lookup(params, "commitish") = Undefined THEN <<>>
  ELSE Lookup(params, "commitish")[1]

NoPlan ==
  [err |-> "", trace |-> <<>>, jump |-> NoJump, expr |-> <<>>,
   edit |-> Undefined]

\* jumpOld taking the new side of the resolver's pair when the name holds
\* the flag R.
jumpOldPlanReverse(bname, content, lnum) ==
  LET d == parse(bname)
      jump == findJumpOld(lnum - 1, content)
      path == stripPrefix(jump.path, "a")
      cached == HasKey(d.params, "cached")
      commitish == commitishOf(d.params)
      r == parseCommitish(commitish, cached)
  IN  IF ~d.ok
      THEN [NoPlan EXCEPT !.err = "parse", !.trace = <<"gather", "parse">>]
      ELSE IF ~jump.found
      THEN [NoPlan EXCEPT !.trace = <<"gather", "parse", "locate">>]
      ELSE IF ~r.ok
      THEN [NoPlan EXCEPT !.err = "commitish", !.jump = jump,
                          !.trace = <<"gather", "parse", "locate", "resolve">>]
      ELSE [err |-> "", jump |-> jump, expr |-> d.expr,
            trace |-> <<"gather", "parse", "locate", "resolve", "edit">>,
            edit |-> Some(editArgs(d.expr, commitish,
                                   IF HasKey(d.params, "R")
                                   THEN r.new ELSE r.old, path))]

\* jumpOld with the resolver called before the locator's answer is looked at.
jumpOldPlanEager(bname, content, lnum) ==
  LET d == parse(bname)
      jump == findJumpOld(lnum - 1, content)
      path == stripPrefix(jump.path, "a")
      cached == HasKey(d.params, "cached")
      commitish == commitishOf(d.params)
      r == parseCommitish(commitish, cached)
  IN  IF ~d.ok
      THEN [NoPlan EXCEPT !.err = "parse", !.trace = <<"gather", "parse">>]
      ELSE IF ~r.ok
      THEN [NoPlan EXCEPT !.err = "commitish", !.jump = jump,
                          !.trace = <<"gather", "parse", "locate", "resolve">>]
      ELSE IF ~jump.found
      THEN [NoPlan EXCEPT
              !.trace = <<"gather", "parse", "locate", "resolve">>]
      ELSE [err |-> "", jump |-> jump, expr |-> d.expr,
            trace |-> <<"gather", "parse", "locate", "resolve", "edit">>,
            edit |-> Some(editArgs(d.expr, commitish, r.old, path))]

\* What jumpOld does up to its call of the edit command.
jumpOldPlan(bname, content, lnum) ==
  LET d == parse(bname)
      jump == findJumpOld(lnum - 1, content)
      path == stripPrefix(jump.path, "a")
      cached == HasKey(d.params, "cached")
      commitish == commitishOf(d.params)
      r == parseCommitish(commitish, cached)
  IN  IF ~d.ok
      THEN [NoPlan EXCEPT !.err = "parse", !.trace = <<"gather", "parse">>]
      ELSE IF ~jump.found
      THEN [NoPlan EXCEPT !.trace = <<"gather", "parse", "locate">>]
      ELSE IF ~r.ok
      THEN [NoPlan EXCEPT !.err = "commitish", !.jump = jump,
                          !.trace = <<"gather", "parse", "locate", "resolve">>]
      ELSE [err |-> "", jump |-> jump, expr |-> d.expr,
            trace |-> <<"gather", "parse", "locate", "resolve", "edit">>,
            edit |-> Some(editArgs(d.expr, commitish, r.old, path))]

\* What jumpNew does up to its call of the edit command.
jumpNewPlan(bname, content, lnum) ==
  LET d == parse(bname)
      jump == findJumpNew(lnum - 1, content)
      path == stripPrefix(jump.path, "b")
      cached == HasKey(d.params, "cached")
      commitish == commitishOf(d.params)
      r == parseCommitish(commitish, cached)
  IN  IF ~d.ok
      THEN [NoPlan EXCEPT !.err = "parse", !.trace = <<"gather", "parse">>]
      ELSE IF ~jump.found
      THEN [NoPlan EXCEPT !.trace = <<"gather", "parse", "locate">>]
      ELSE IF ~r.ok
      THEN [NoPlan EXCEPT !.err = "commitish", !.jump = jump,
                          !.trace = <<"gather", "parse", "locate", "resolve">>]
      ELSE [err |-> "", jump |-> jump, expr |-> d.expr,
            trace |-> <<"gather", "parse", "locate", "resolve", "edit">>,
            edit |-> Some(editArgs(d.expr, commitish, r.new, path))]

\* The name the edit command gives the buffer it opens.
editBname(expr, args) ==
  format([scheme |-> "ginedit", expr |-> expr, hasParams |-> TRUE,
          params |-> IF Len(args) < 3 THEN <<>>
                     ELSE IF args[2] = <<"--cached">>
                     THEN <<[k |-> "cached", v |-> Some(<<>>)]>>
                     ELSE <<[k |-> "commitish", v |-> Some(args[2])]>>,
          fragment |-> args[Len(args)]])

\* jump with the cursor set before the edit command is awaited: it is set
\* also when the edit command throws.
jumpCursorFirst(op, plan, lnum, fileTexts) ==
  LET done == [NoLast EXCEPT !.op = op, !.bname = bufs[cur].name,
                             !.bufnr = cur, !.lnum = lnum,
                             !.jump = plan.jump, !.err = plan.err,
                             !.trace = plan.trace, !.edit = plan.edit]
  IN  IF plan.edit = Undefined
      THEN /\ last' = done
           /\ UNCHANGED <<bufs, cur, gDisable, cmdline, procs, requests>>
      ELSE \/ /\ last' = [done EXCEPT
                     !.err = "edit", !.trace = Append(@, "cursor"),
                     !.cursorSet = Some(<<plan.jump.lnum, 1>>)]
              /\ UNCHANGED <<bufs, cur, gDisable, cmdline, procs, requests>>
           \/ \E b \in SlotsFor(editBname(plan.expr, plan.edit[1])),
                 t \in fileTexts :
                /\ bufs' = [bufs EXCEPT
                     ![b].name = editBname(plan.expr, plan.edit[1]),
                     ![b].text = IF bufs[b].name = <<>> THEN t ELSE @]
                /\ cur' = b
                /\ last' = [done EXCEPT
                     !.trace = Append(@, "cursor"),
                     !.cursorSet = Some(<<plan.jump.lnum, 1>>)]
                /\ UNCHANGED <<gDisable, cmdline, procs, requests>>

\* A jump handler from its plan to its end: the edit command opens the file
\* in a buffer of its own and makes it current, or throws.
jump(op, plan, lnum, fileTexts) ==
  LET done == [NoLast EXCEPT !.op = op, !.bname = bufs[cur].name,
                             !.bufnr = cur, !.lnum = lnum,
                             !.jump = plan.jump, !.err = plan.err,
                             !.trace = plan.trace, !.edit = plan.edit]
  IN  IF plan.edit = Undefined
      THEN /\ last' = done
           /\ UNCHANGED <<bufs, cur, gDisable, cmdline, procs, requests>>
      ELSE \/ /\ last' = [done EXCEPT !.err = "edit"]
              /\ UNCHANGED <<bufs, cur, gDisable, cmdline, procs, requests>>
           \/ \E b \in SlotsFor(editBname(plan.expr, plan.edit[1])),
                 t \in fileTexts :
                /\ bufs' = [bufs EXCEPT
                     ![b].name = editBname(plan.expr, plan.edit[1]),
                     ![b].text = IF bufs[b].name = <<>> THEN t ELSE @]
                /\ cur' = b
                /\ last' = [done EXCEPT
                     !.trace = Append(@, "cursor"),
                     !.cursorSet = Some(<<plan.jump.lnum, 1>>)]
                /\ UNCHANGED <<gDisable, cmdline, procs, requests>>

\* The handlers read the cursor line (fn.line(".")), the text and the name
\* of the current buffer in one batch; the cursor is on any line of it.
jumpOld(fileTexts) ==
  \E lnum \in 1..LastLine(bufs[cur].text) :
    jump("jumpOld",
         jumpOldPlan(bufs[cur].name, Text(bufs[cur].text), lnum),
         lnum, fileTexts)

jumpNew(fileTexts) ==
  \E lnum \in 1..LastLine(bufs[cur].text) :
    jump("jumpNew",
         jumpNewPlan(bufs[cur].name, Text(bufs[cur].text), lnum),
         lnum, fileTexts)

(* ------------------------------- the user ------------------------------ *)

\* :buffer b
SwitchBuffer(b) ==
  /\ b # cur
  /\ bufs[b].name # <<>>
  /\ cur' = b
  /\ last' = NoLast
  /\ UNCHANGED <<bufs, gDisable, cmdline, procs, requests>>

\* :bwipeout b, of a buffer that is not shown and awaits no process.
Wipe(b) ==
  /\ b # cur
  /\ bufs[b].name # <<>>
  /\ procs[b].pc = "idle"
  /\ bufs' = [bufs EXCEPT ![b] = NoBuf]
  /\ last' = NoLast
  /\ UNCHANGED <<cur, gDisable, cmdline, procs, requests>>

(* --------------------------- the specifications ------------------------ *)

\* read as one step, for the behaviours in which nothing happens between
\* its start and its end.
read(textSet) ==
  LET plan == readPlan(bufs[cur].name)
      done == [NoLast EXCEPT !.op = "read", !.bname = bufs[cur].name,
                             !.bufnr = cur, !.err = plan.err,
                             !.trace = plan.trace, !.diff = plan.diff]
  IN  /\ IsDiffName(bufs[cur].name)
      /\ procs[cur].pc = "idle"
      /\ IF plan.err # ""
         THEN last' = done /\ UNCHANGED <<bufs, requests>>
         ELSE \E success \in BOOLEAN, t \in textSet :
                LET p == [IdleProc EXCEPT
                            !.pc = "await", !.bname = bufs[cur].name,
                            !.disable = gDisable,
                            !.status = IF success THEN "ok" ELSE "fail",
                            !.stdout = t]
                IN  /\ bufs' = [bufs EXCEPT ![cur] = readBuffer(@, p)]
                    /\ requests' = requests \cup
                         {[bname |-> bufs[cur].name, diff |-> plan.diff[1]]}
                    /\ last' = [done EXCEPT
                          !.err = IF success THEN "" ELSE "process",
                          !.echo = IF success THEN Undefined
                                   ELSE Some("stderr"),
                          !.trace = plan.trace \o readTrace(p)]
      /\ UNCHANGED <<cur, gDisable, cmdline, procs>>

\* The flag lists of the command lines: -R, --cached and --diff-filter=A,
\* in any order.
FlagLists ==
  SeqsNoRepeat({[k |-> "R", v |-> Some(<<>>)],
                [k |-> "cached", v |-> Some(<<>>)],
                [k |-> "diff-filter", v |-> Some(<<"A">>)]}, MaxFlags)

\* The revision expressions of the command lines: the empty one, one
\* revision, a range, and a malformed one.
Expressions ==
  {<<>>, <<"R1">>, <<"R1", "..", "R2">>, <<"R1", "..", "R2", "..", "R3">>}

\* The residues of the command lines: a file of the repository alone and
\* after each expression, the root of the repository, and none.
Residues ==
  {<<Repo \o FooPath>>, <<Repo>>, <<>>}
    \cup {<<e, Repo \o FooPath>> : e \in Expressions}

Envs == {[cwd |-> Repo, dirname |-> <<>>, exists |-> FALSE]}

CmdLines ==
  [opts : {<<>>}, flags : FlagLists, residue : Residues, env : Envs]

Init == InitWith(CmdLines, {FALSE})

Next ==
  \/ command
  \/ read({2})
  \/ jumpOld({0, 2})
  \/ jumpNew({0, 2})
  \/ \E b \in BufNrs : SwitchBuffer(b)
  \/ \E b \in BufNrs : Wipe(b)

Spec == Init /\ [][Next]_vars

\* The same editor with read in its steps: the diff process runs while the
\* user goes on, and its three results arrive in any order.
AsyncCmdLines ==
  [opts : {<<>>}, flags : {<<>>},
   residue : {<<Repo \o FooPath>>, <<<<"R1">>, Repo \o FooPath>>},
   env : Envs]

InitAsync == InitWith(AsyncCmdLines, {FALSE})

NextAsync ==
  \/ command
  \/ readStart(1)
  \/ \E b \in BufNrs, which \in Awaited : readResolve(b, which, {1, 2})
  \/ \E b \in BufNrs : readFinish(b)
  \/ jumpNew({0})
  \/ \E b \in BufNrs : SwitchBuffer(b)
  \/ \E b \in BufNrs : Wipe(b)

SpecAsync == InitAsync /\ [][NextAsync]_vars

\* The locator alone: a filled diff buffer holds one of the scanned texts,
\* and the locator is called for each side with the cursor on any line, as
\* the jump handlers call it.
ScanTexts == {1, 2} \cup 3..(2 + Len(ScanLines) ^ MaxLines)

callFindJump(op, side) ==
  \E lnum \in 1..LastLine(bufs[cur].text) :
    /\ last' = [NoLast EXCEPT
         !.op = op, !.bname = bufs[cur].name, !.bufnr = cur, !.lnum = lnum,
         !.trace = <<"locate">>,
         !.jump = IF side = "old"
                  THEN findJumpOld(lnum - 1, Text(bufs[cur].text))
                  ELSE findJumpNew(lnum - 1, Text(bufs[cur].text))]
    /\ UNCHANGED <<bufs, cur, gDisable, cmdline, procs, requests>>

callFindJumpOld == callFindJump("findJumpOld", "old")

callFindJumpNew == callFindJump("findJumpNew", "new")

InitLocate ==
  /\ \E t \in ScanTexts :
       bufs = [b \in BufNrs |->
                 IF b = 1
                 THEN [name |-> commandBname(Repo, <<>>, Undefined,
                                             Repo \o FooPath),
                       text |-> t, decor |-> readDecor(NoDecor, FALSE),
                       origin |-> Undefined]
                 ELSE NoBuf]
  /\ cur = 1
  /\ gDisable = FALSE
  /\ cmdline \in AsyncCmdLines
  /\ procs = [b \in BufNrs |-> IdleProc]
  /\ requests = {}
  /\ last = NoLast

NextLocate == callFindJumpOld \/ callFindJumpNew

SpecLocate == InitLocate /\ [][NextLocate]_vars

\* The editor with a diff that renames a/bar.txt to b/bar.txt: the header
\* of foo.txt and its hunk header, the header a/a/bar.txt b/b/bar.txt, a
\* hunk header, and context lines.
BarText ==
  CHOOSE t \in ScanTexts :
    /\ Len(Text(t)) >= 5
    /\ SubSeq(Text(t), 3, 4) = SubSeq(ScanLines, 1, 2)
    /\ \A i \in 5..Len(Text(t)) : Text(t)[i] = ContentLine("ctx")

PathCmdLines ==
  [opts : {<<>>},
   flags : {<<>>, <<[k |-> "cached", v |-> Some(<<>>)]>>},
   residue : {<<Repo \o FooPath>>, <<<<"R1">>, Repo \o FooPath>>},
   env : Envs]

InitPaths == InitWith(PathCmdLines, {FALSE})

NextPaths ==
  \/ command
  \/ read({BarText})
  \/ jumpOld({0})
  \/ jumpNew({0})
  \/ \E b \in BufNrs : SwitchBuffer(b)
  \/ \E b \in BufNrs : Wipe(b)

SpecPaths == InitPaths /\ [][NextPaths]_vars

\* :let g:gin_diff_disable_default_mappings = ...
SetDisable ==
  /\ gDisable' = ~gDisable
  /\ last' = NoLast
  /\ UNCHANGED <<bufs, cur, cmdline, procs, requests>>

\* The editor of a user who changes g:gin_diff_disable_default_mappings
\* between the reads.
InitRender == InitWith(AsyncCmdLines, BOOLEAN)

NextRender ==
  \/ command
  \/ read({1, 2})
  \/ SetDisable
  \/ jumpNew({0})
  \/ \E b \in BufNrs : SwitchBuffer(b)
  \/ \E b \in BufNrs : Wipe(b)

SpecRender == InitRender /\ [][NextRender]_vars

\* The editor of a user who runs GinDiff with any command line, accepted
\* or not, from a buffer opened before: an unnamed one, a file of another
\* directory, a diff buffer of another repository, a buffer of another
\* plugin.
OpenOpts ==
  {<<>>,
   <<[k |-> "worktree", v |-> Some(<<"other", "sub">>)]>>,
   <<[k |-> "worktree", v |-> Some(<<>>)]>>,
   <<[k |-> "bad", v |-> Some(<<>>)]>>}

OpenFlags ==
  {<<>>,
   <<[k |-> "cached", v |-> Some(<<>>)]>>,
   <<[k |-> "stat", v |-> Some(<<>>)]>>}

OpenResidues ==
  {<<>>, <<Repo \o FooPath>>, <<<<"R1">>, Repo \o FooPath>>,
   <<<<"R1">>, <<"R2">>, Repo \o FooPath>>}

OpenEnvs ==
  {[cwd |-> <<"w1">>, dirname |-> <<>>, exists |-> FALSE],
   [cwd |-> <<"w1">>, dirname |-> <<"w2", "sub">>, exists |-> FALSE],
   [cwd |-> <<"w1">>, dirname |-> <<"w2", "sub">>, exists |-> TRUE]}

OpenCmdLines ==
  [opts : OpenOpts, flags : OpenFlags, residue : OpenResidues,
   env : OpenEnvs]

StartNames ==
  {<<>>,
   <<"w2", "sub", "x.txt">>,
   <<"gindiff", "://", "w3", "?", "#", "foo.txt">>,
   <<"fern", "://", "w4">>}

InitOpen ==
  /\ \E n \in StartNames : bufs = [b \in BufNrs |->
                                     IF b = 1 THEN [NoBuf EXCEPT !.name = n]
                                     ELSE NoBuf]
  /\ cur = 1
  /\ gDisable = FALSE
  /\ cmdline \in OpenCmdLines
  /\ procs = [b \in BufNrs |-> IdleProc]
  /\ requests = {}
  /\ last = NoLast

NextOpen ==
  \/ command
  \/ read({2})
  \/ \E b \in BufNrs : SwitchBuffer(b)
  \/ \E b \in BufNrs : Wipe(b)

SpecOpen == InitOpen /\ [][NextOpen]_vars

\* Two diff buffers read at once: the diff buffer of foo.txt is open, and
\* GinDiff R1 foo.txt opens a second one; the reads of both may run
\* together while the user switches between them.
OverlapCmdLines ==
  [opts : {<<>>}, flags : {<<>>},
   residue : {<<<<"R1">>, Repo \o FooPath>>}, env : Envs]

InitOverlap ==
  /\ bufs = [b \in BufNrs |->
               IF b = 1
               THEN [NoBuf EXCEPT !.name = commandBname(Repo, <<>>, Undefined,
                                                         Repo \o FooPath)]
               ELSE NoBuf]
  /\ cur = 1
  /\ gDisable = FALSE
  /\ cmdline \in OverlapCmdLines
  /\ procs = [b \in BufNrs |-> IdleProc]
  /\ requests = {}
  /\ last = NoLast

NextOverlap ==
  \/ command
  \/ readStart(2)
  \/ \E b \in BufNrs, which \in Awaited : readResolve(b, which, {1, 2})
  \/ \E b \in BufNrs : readFinish(b)
  \/ \E b \in BufNrs : SwitchBuffer(b)
  \/ \E b \in BufNrs : Wipe(b)

SpecOverlap == InitOverlap /\ [][NextOverlap]_vars

(* ------------------------------ the claims ----------------------------- *)

IsJump == last.op \in {"jumpOld", "jumpNew"}

\* The descriptor of the buffer the handler that just ran was called in.
LastDesc == parse(last.bname)

LastExpression == commitishOf(LastDesc.params)

LastCached == HasKey(LastDesc.params, "cached")

\* resolve(expression, cached) of that descriptor, and the side the jump
\* that just ran asks for.
LastResolved == parseCommitish(LastExpression, LastCached)

LastTarget ==
  IF last.op = "jumpOld" THEN LastResolved.old ELSE LastResolved.new

Count(s, x) == Cardinality({i \in 1..Len(s) : s[i] = x})

WorktreeArg(root) == <<"++worktree=">> \o root

\* The line of the buffer the cursor was on when the jump that just ran
\* read it.
LastLineKind ==
  IF last.lnum \in 1..Len(Text(bufs[last.bufnr].text))
  THEN Text(bufs[last.bufnr].text)[last.lnum].k ELSE "none"

\* C1: a jump whose locator returned a mapping issues exactly one open
\* request, for the old target of resolve(expression, cached) on jump-old
\* and the new one on jump-new: the worktree is opened with the root and the
\* path alone, the index with --cached, a commit with a revision; the root
\* of the request is the root of the descriptor.
C1_JumpOpensResolvedTarget ==
  (IsJump /\ last.jump.found /\ LastResolved.ok) =>
    /\ last.edit # Undefined
    /\ Count(last.trace, "edit") = 1
    /\ LET args == last.edit[1]
       IN  /\ args[1] = WorktreeArg(LastDesc.expr)
           /\ LastTarget = WORKTREE => Len(args) = 2
           /\ LastTarget = INDEX =>
                Len(args) = 3 /\ args[2] = <<"--cached">>
           /\ LastTarget.kind = "COMMIT" =>
                Len(args) = 3 /\ args[2] \notin {<<>>, <<"--cached">>}

C1_Witness ==
  /\ last.op = "jumpNew"
  /\ last.jump.found
  /\ LastTarget = INDEX
  /\ last.edit = Some(<<WorktreeArg(Repo), <<"--cached">>, FooPath>>)

IsRange(e) ==
  /\ Len(SplitBy(e, "..")) = 2
  /\ IsRevision(SplitBy(e, "..")[1])
  /\ IsRevision(SplitBy(e, "..")[2])

\* C2: when the expression is a range R1..R2, jump-old opens the file as
\* of R1 and jump-new as of R2: the revision of the open request is the
\* ref of the chosen side, not the whole expression.
C2_RangeOpensResolvedRef ==
  (IsJump /\ last.jump.found /\ IsRange(LastExpression)
     /\ last.edit # Undefined) =>
    /\ Len(last.edit[1]) = 3
    /\ last.edit[1][2] =
         SplitBy(LastExpression, "..")[IF last.op = "jumpOld" THEN 1 ELSE 2]

\* C3: with an empty or absent expression, jump-old opens the index and
\* jump-new the worktree when the descriptor has no cached flag, and
\* jump-old opens HEAD and jump-new the index when it has; when the open
\* request succeeds the cursor is set to the mapped line.
C3_EmptyExpressionTargets ==
  (IsJump /\ last.jump.found /\ LastExpression = <<>>) =>
    /\ last.edit # Undefined
    /\ LET args == last.edit[1]
           old == last.op = "jumpOld"
       IN  /\ (~LastCached /\ old) =>
                Len(args) = 3 /\ args[2] = <<"--cached">>
           /\ (~LastCached /\ ~old) => Len(args) = 2
           /\ (LastCached /\ old) => Len(args) = 3 /\ args[2] = <<"HEAD">>
           /\ (LastCached /\ ~old) =>
                Len(args) = 3 /\ args[2] = <<"--cached">>
    /\ last.err \in {"", "edit"}
    /\ last.err = "" => last.cursorSet = Some(<<last.jump.lnum, 1>>)

C3_Witness ==
  /\ last.op = "jumpOld"
  /\ LastExpression = <<>>
  /\ LastCached
  /\ LastLineKind = "del"
  /\ last.edit = Some(<<WorktreeArg(Repo), <<"HEAD">>, FooPath>>)
  /\ last.cursorSet = Some(<<4, 1>>)

\* C4: a jump whose locator returns no mapping does nothing: the resolver
\* is not called, no file is opened, no cursor is set, no error is raised,
\* and the editor is as it was.
C4_NoMappingNoAction ==
  [][(last'.op \in {"jumpOld", "jumpNew"}
        /\ "locate" \in Range(last'.trace) /\ ~last'.jump.found) =>
       /\ "resolve" \notin Range(last'.trace)
       /\ last'.edit = Undefined
       /\ last'.cursorSet = Undefined
       /\ last'.err = ""
       /\ bufs' = bufs /\ cur' = cur /\ procs' = procs
       /\ requests' = requests]_vars

C4_Witness ==
  /\ last.op = "jumpNew"
  /\ "locate" \in Range(last.trace)
  /\ ~last.jump.found
  /\ LastLineKind = "del"
  /\ last.err = ""

\* The buffers whose read ends in this step with a failed diff process.
FailedNow(b) ==
  /\ procs[b].pc = "await"
  /\ procs[b].status = "fail"
  /\ procs'[b].pc = "idle"

\* C5: when the diff process of a read has failed, the end of the read
\* shows the error text and leaves every buffer as it was (no option, no
\* mapping, no text), in whichever order status, stdout and stderr arrived.
C5_FailureLeavesBuffer ==
  [][\A b \in BufNrs : FailedNow(b) =>
       /\ bufs' = bufs
       /\ last'.op = "read" /\ last'.bufnr = b
       /\ last'.err = "process"
       /\ last'.echo = Some("stderr")
       /\ Range(last'.trace) \cap
            {"options", "mapOld", "mapNew", "mapKeys", "editData"} = {}]_vars

\* A read fails on a buffer an earlier read has filled, with another text
\* on stdout and the status arriving last.
C5_Witness ==
  /\ last.op = "read"
  /\ last.err = "process"
  /\ last.order = <<"stderr", "stdout", "status">>
  /\ bufs[last.bufnr].text = 1
  /\ bufs[last.bufnr].decor = [opts |-> TRUE, plug |-> TRUE, keys |-> TRUE]
  /\ last.echo = Some("stderr")

\* The command line that opened the buffer the read that just ran was
\* called in.
LastOrigin == bufs[last.bufnr].origin[1]

\* C6: a read of a buffer GinDiff opened with root W, expression E, flags F
\* and path P requests a diff in W whose arguments are diff, --no-color,
\* the flags F (commitish never among them), E when it is present and not
\* empty, and P relative to W; GinDiff does not call the resolver.
C6_OpenRenderRoundTrip ==
  /\ (last.op = "read" /\ bufs[last.bufnr].origin # Undefined) =>
       /\ last.diff # Undefined
       /\ last.diff[1].cwd = LastOrigin.worktree
       /\ last.diff[1].args =
            <<<<"diff">>, <<"--no-color">>>>
              \o formatFlags(LastOrigin.flags)
              \o (IF Truthy(LastOrigin.commitish)
                  THEN <<LastOrigin.commitish[1]>> ELSE <<>>)
              \o <<relative(LastOrigin.worktree, LastOrigin.abspath)>>
  /\ last.op = "command" => "resolve" \notin Range(last.trace)

\* C7: a read of a name without a fragment throws the missing-fragment
\* error: no diff process is started and no buffer is touched.
C7_NoFragmentFailsEarly ==
  [][(last'.op = "read" /\ parse(last'.bname).ok
        /\ parse(last'.bname).fragment = <<>>) =>
       /\ last'.err = "fragment"
       /\ last'.diff = Undefined
       /\ "run" \notin Range(last'.trace)
       /\ bufs' = bufs /\ procs' = procs /\ requests' = requests]_vars

C7_Witness ==
  /\ last.op = "read"
  /\ LastDesc.scheme = "gindiff"
  /\ LastDesc.expr = Repo
  /\ LastDesc.fragment = <<>>
  /\ last.err = "fragment"
  /\ bufs[last.bufnr].text = 0
  /\ bufs[last.bufnr].decor = NoDecor
  /\ requests = {}

\* C8: read, jumpOld and jumpNew on a name of another scheme or without a
\* fragment end in the named error, and then run no diff, open no file and
\* set no cursor.
C8_MalformedIdentifierFails ==
  (last.op \in {"read", "jumpOld", "jumpNew"}
     /\ (~LastDesc.ok \/ LastDesc.scheme # "gindiff"
           \/ LastDesc.fragment = <<>>)) =>
    /\ last.err \in {"parse", "scheme", "fragment"}
    /\ last.diff = Undefined
    /\ last.edit = Undefined
    /\ last.cursorSet = Undefined

\* The expression of the session's command line is malformed.
MalformedCmdline ==
  /\ Len(cmdline.residue) = 2
  /\ ~parseCommitish(cmdline.residue[1], HasKey(cmdline.flags, "cached")).ok

\* C9: a malformed expression aborts the operation: GinDiff fails and
\* opens no buffer, a jump ends in the invalid-expression error with no
\* file opened and no cursor set.
C9_MalformedExpressionAborts ==
  /\ (last.op = "command" /\ MalformedCmdline) =>
       last.err # "" /\ last.bufnr = 0
  /\ (IsJump /\ last.jump.found /\ ~LastResolved.ok) =>
       /\ last.err = "commitish"
       /\ last.edit = Undefined
       /\ last.cursorSet = Undefined

ScanText == Text(bufs[last.bufnr].text)

ScanSide == IF last.op = "findJumpOld" THEN "old" ELSE "new"

\* The last header line above line i of text, 0 when there is none.
HeaderAbove(text, i) ==
  IF \E j \in 1..(i - 1) : text[j].k \in {"file", "hunk"}
  THEN CHOOSE j \in 1..(i - 1) :
         /\ text[j].k \in {"file", "hunk"}
         /\ \A m \in (j + 1)..(i - 1) : text[m].k \notin {"file", "hunk"}
  ELSE 0

\* The last file header above line i of text, 0 when there is none.
FileAbove(text, i) ==
  IF \E j \in 1..(i - 1) : text[j].k = "file"
  THEN CHOOSE j \in 1..(i - 1) :
         /\ text[j].k = "file"
         /\ \A m \in (j + 1)..(i - 1) : text[m].k # "file"
  ELSE 0

\* The lines of the given kinds between the header at h and line i.
Passed(text, h, i, kinds) ==
  Cardinality({m \in (h + 1)..(i - 1) : text[m].k \in kinds})

\* What the claim says the locator returns for line i of text on side:
\* line 0 when it is absent.
Expected(text, i, side) ==
  LET h == HeaderAbove(text, i)
      mine == IF side = "old" THEN "del" ELSE "add"
  IN  IF text[i].k \notin {"ctx", mine} \/ h = 0 THEN 0
      ELSE IF text[h].k # "hunk" THEN 0
      ELSE text[h].s[IF side = "old" THEN 1 ELSE 2]
             + Passed(text, h, i, {"ctx", mine})

JumpSteps == <<"gather", "parse", "locate", "resolve", "edit", "cursor">>

\* C12: a jump that finds a mapping takes its steps in the order gather,
\* parse, locate, resolve, edit, cursor, each at most once; the locator is
\* given the cursor line minus 1; the cursor is set after the edit command
\* has returned, to column 1 of the locator's line, which is 1 or more;
\* when the edit command throws the cursor is not set.
C12_JumpStepOrder ==
  (IsJump /\ last.jump.found) =>
    /\ Len(last.trace) \in 4..Len(JumpSteps)
    /\ last.trace = SubSeq(JumpSteps, 1, Len(last.trace))
    /\ last.jump =
         IF last.op = "jumpOld"
         THEN findJumpOld(last.lnum - 1, Text(bufs[last.bufnr].text))
         ELSE findJumpNew(last.lnum - 1, Text(bufs[last.bufnr].text))
    /\ last.jump.lnum >= 1
    /\ last.cursorSet # Undefined <=> "cursor" \in Range(last.trace)
    /\ last.cursorSet # Undefined =>
         /\ last.err = ""
         /\ last.cursorSet = Some(<<last.jump.lnum, 1>>)
    /\ last.err # "" => last.cursorSet = Undefined

\* jumpNew with the cursor on the context line after a removal and an
\* addition of the hunk @@ -4,2 +6,2 @@.
C12_Witness ==
  /\ last.op = "jumpNew"
  /\ last.lnum = 5
  /\ LastLineKind = "ctx"
  /\ last.trace = JumpSteps
  /\ last.cursorSet = Some(<<7, 1>>)
  /\ cur # last.bufnr

\* The path of the last file header above the cursor line of the jump that
\* just ran, on the side of the jump, as the diff text gives it.
HeaderPath ==
  LET text == Text(bufs[last.bufnr].text)
  IN  text[FileAbove(text, last.lnum)].p[IF last.op = "jumpOld" THEN 1 ELSE 2]

C14_EntryPointsBeforeText ==
  (last.op = "read" /\ last.err = "") =>
    /\ last.trace =
         <<"gather", "parse", "run", "await", "close", "options", "mapOld",
           "mapNew">>
           \o (IF gDisable THEN <<>> ELSE <<"mapKeys">>)
           \o <<"editData", "concrete">>
    /\ Range(last.trace) \cap {"locate", "resolve"} = {}
    /\ bufs[last.bufnr].decor.opts
    /\ bufs[last.bufnr].decor.plug
    /\ ~gDisable => bufs[last.bufnr].decor.keys

\* A read with the default mappings disabled, of a buffer that was never
\* filled with them enabled: the entry points are there, the keys are not.
C14_Witness ==
  /\ last.op = "read"
  /\ last.err = ""
  /\ gDisable
  /\ "mapKeys" \notin Range(last.trace)
  /\ bufs[last.bufnr].decor = [opts |-> TRUE, plug |-> TRUE, keys |-> FALSE]
  /\ bufs[last.bufnr].text = 1

\* The session's command line has one or two residual arguments and only
\* accepted options and flags.
CmdlineAccepted ==
  /\ Len(cmdline.residue) \in {1, 2}
  /\ \A i \in 1..Len(cmdline.opts) :
       cmdline.opts[i].k \in {"worktree", "enc", "ff"}
  /\ \A i \in 1..Len(cmdline.flags) : cmdline.flags[i].k \in AllowedFlags

\* C15: GinDiff with one residual argument opens the buffer of that path
\* without expression, with two the buffer of the expression and the path;
\* with another number of them, or an option or flag that is not accepted,
\* it throws before buffer.open: no buffer is named and the current buffer
\* stays.
C15_OpenValidatesFirst ==
  [][last'.op = "command" =>
       IF CmdlineAccepted
       THEN /\ last'.err = ""
            /\ Count(last'.trace, "open") = 1
            /\ last'.trace[Len(last'.trace)] = "open"
            /\ bufs'[cur'].name = last'.bname
            /\ Lookup(parse(last'.bname).params, "commitish") =
                 (IF Len(cmdline.residue) = 2
                  THEN Some(cmdline.residue[1]) ELSE Undefined)
       ELSE /\ last'.err # ""
            /\ "open" \notin Range(last'.trace)
            /\ bufs' = bufs /\ cur' = cur]_vars

\* GinDiff with three residual arguments.
C15_Witness ==
  /\ last.op = "command"
  /\ Len(cmdline.residue) = 3
  /\ cmdline.opts = <<>> /\ cmdline.flags = <<>>
  /\ last.err = "residue"
  /\ bufs[2] = NoBuf
  /\ cur = 1

\* The root the claim names for a command line run from the buffer bname.
ExpectedRoot(opts, bname, env) ==
  CASE \E i \in 1..Len(opts) : opts[i].k = "worktree" /\ opts[i].v # Some(<<>>)
         -> <<"other">>
    [] OTHER ->
         CASE bname = <<>> \/ ~parse(bname).ok
                \/ parse(bname).scheme \notin {"gindiff", "ginedit"} ->
                  IF env.dirname # <<>> /\ env.exists THEN <<"w2">>
                  ELSE <<"w1">>
           [] OTHER -> parse(bname).expr

RECURSIVE CoreParams(_)
CoreParams(params) ==
  IF params = <<>> THEN <<>>
  ELSE IF Head(params).k \in {"cached", "commitish"}
  THEN <<Head(params)>> \o CoreParams(Tail(params))
  ELSE CoreParams(Tail(params))

\* The name bname without its other parameters.
CoreName(bname) ==
  LET d == parse(bname)
  IN  format([scheme |-> d.scheme, expr |-> d.expr, hasParams |-> TRUE,
              params |-> CoreParams(d.params), fragment |-> d.fragment])

\* What the jump that just ran would have done in a buffer of the name
\* without the other parameters, with the same text and cursor line.
CorePlan ==
  IF last.op = "jumpOld"
  THEN jumpOldPlan(CoreName(last.bname), Text(bufs[last.bufnr].text),
                   last.lnum)
  ELSE jumpNewPlan(CoreName(last.bname), Text(bufs[last.bufnr].text),
                   last.lnum)

\* C18: a jump from a buffer whose name holds other parameters (R,
\* diff-filter) issues the edit command and sets the cursor as the same
\* jump does from the buffer of the name without them: same text, same
\* cursor line, same root, expression and cached flag.
C18_OtherParamsIgnored ==
  (IsJump /\ LastDesc.ok) =>
    /\ last.jump = CorePlan.jump
    /\ last.edit = CorePlan.edit
    /\ (last.err \in {"", "edit"}) <=> (CorePlan.err = "")
    /\ last.cursorSet # Undefined =>
         last.cursorSet = Some(<<CorePlan.jump.lnum, 1>>)

C18_Witness ==
  /\ last.op = "jumpOld"
  /\ HasKey(LastDesc.params, "R")
  /\ HasKey(LastDesc.params, "diff-filter")
  /\ ~LastCached
  /\ CoreName(last.bname) # last.bname
  /\ last.edit = Some(<<WorktreeArg(Repo), <<"--cached">>, FooPath>>)
  /\ last.cursorSet = Some(<<5, 1>>)

====
